---- MODULE Spec2Model ----
(***************************************************************************)
(* A model of bullet::DynamicsWorld (src/src/DynamicsWorld.cpp): the       *)
(* object registry mObjects, the simulation context mWorld with its        *)
(* collision object array, the last-observed object count mNumObjects,     *)
(* the world-info, and the operations pushBack, erase, update, setInfo,    *)
(* the accessors, the createRigid* factories and the destructor.           *)
(*                                                                         *)
(* The physics engine is an external collaborator.  The model records the  *)
(* calls each operation makes to it (calls) and the content of the         *)
(* engine's collision object array (worldArr).                             *)
(***************************************************************************)
EXTENDS Integers, Sequences, FiniteSets

\* Number of CollisionObjects the caller constructs in one run.
MaxObjects == 3

VARIABLES
  pc,          \* "idle": between operations; "crashed"; "destroyed"
  mObjects,    \* the registry: sequence of CollisionObjects
  worldArr,    \* mWorld->getCollisionObjectArray()
  mNumObjects, \* last-observed object count
  deleted,     \* the delete expressions the destructor has run, in order
  nextId,      \* identity of the next object the caller constructs
  calls,       \* engine calls made by the last operation, in order
  last,        \* the last operation and the state it was entered in
  mSoftBodyWorldInfo, \* the stored world-info
  worldGravity,       \* the gravity set on mWorld
  steps,       \* arguments of the stepSimulation calls of the last operation
  mid          \* registry and engine array between the two statements of
               \* the last pushBack or erase (else as the operation left them)

vars ==
  <<pc, mObjects, worldArr, mNumObjects, deleted, nextId, calls, last,
    mSoftBodyWorldInfo, worldGravity, steps, mid>>

\* The registry and the engine's array at one point of an operation.
Point(s, arr) == [objects |-> s, world |-> arr]

Kinds == {"rigid", "soft"}

\* A CollisionObject: its identity and its discriminant.
CollisionObject(i, k) == [id |-> i, kind |-> k]

isRigidBody(object) == object.kind = "rigid"

isSoftBody(object) == object.kind = "soft"

Ids(s) == {s[i].id : i \in 1..Len(s)}

Range(s) == {s[i] : i \in 1..Len(s)}

----------------------------------------------------------------------------
\* The containers.

\* mObjects.push_back( object )
push_back(s, object) == Append(s, object)

\* mObjects.erase( pos ): the sequence without the element at pos.
SeqErase(s, pos) == [i \in 1..(Len(s) - 1) |-> IF i < pos THEN s[i] ELSE s[i + 1]]

\* The position mObjects.erase( pos ) returns: that of the element that
\* followed pos, which is end() (Len + 1 of the result) when pos was last.
EraseReturn(s, pos) == pos

\* uint32_t DynamicsWorld::getNumObjects()
getNumObjects == mNumObjects

\* begin() and end() as positions of the registry.
begin == 1

end == Len(mObjects) + 1

\* btCollisionWorld::addCollisionObject / removeCollisionObject on the
\* engine's array.  The engine removes the first entry that is the body by
\* moving the last entry into its place and dropping the last.
AddCollisionObject(arr, object) == Append(arr, object)

RemoveCollisionObject(arr, object) ==
  LET found == {i \in 1..Len(arr) : arr[i].id = object.id}
  IN  IF found = {} THEN arr
      ELSE LET at == CHOOSE i \in found : \A j \in found : i <= j
           IN  [j \in 1..(Len(arr) - 1) |-> IF j = at THEN arr[Len(arr)] ELSE arr[j]]

----------------------------------------------------------------------------
\* mWorld is created as a btDiscreteDynamicsWorld.  addSoftBody and
\* removeSoftBody are called through a cast of it to
\* btSoftRigidDynamicsWorld, whose soft body list lies outside the object:
\* the call either faults or goes on to btCollisionWorld's add / remove.
SoftCallOutcomes == {"ok", "crash"}

RigidCallOutcomes == {"ok"}

CallOutcomes(object) ==
  IF isRigidBody(object) THEN RigidCallOutcomes
  ELSE IF isSoftBody(object) THEN SoftCallOutcomes
  ELSE {"none"}

\* The engine call pushBack makes for the object.
AddCall(object) ==
  IF isRigidBody(object) THEN <<"addRigidBody", object.id>>
  ELSE <<"addSoftBody", object.id>>

\* The engine call erase makes for the object.
RemoveCall(object) ==
  IF isRigidBody(object) THEN <<"removeRigidBody", object.id>>
  ELSE <<"removeSoftBody", object.id>>

----------------------------------------------------------------------------
\* World-info and gravity.  A float is a pair <<numerator, denominator>>
\* where the model divides, and an integer elsewhere; a vector is a triple.

\* mWorld->setGravity( btVector3( 0.0f, -10.0f, 0.0f ) )
DefaultGravity == <<0, -10, 0>>

\* The values the constructor gives mSoftBodyWorldInfo.
DefaultInfo ==
  [air_density |-> <<6, 5>>, m_broadphase |-> "mBroadphase",
   m_dispatcher |-> "mDispatcher", m_gravity |-> <<0, -10, 0>>,
   water_density |-> 0, water_offset |-> 0, water_normal |-> <<0, 0, 0>>]

\* The world-infos a caller passes to setInfo.
Infos ==
  { DefaultInfo,
    [DefaultInfo EXCEPT !.m_gravity = <<0, 0, 0>>],
    [DefaultInfo EXCEPT !.m_gravity = <<0, -5, 0>>, !.air_density = <<0, 1>>,
                        !.water_density = 1] }

----------------------------------------------------------------------------
\* The constructor; create() and createWorld() return a world in this state.

\* Mutant: mNumObjects is left as the allocation had it, not zero.
InitNumObjects_Unset == MaxObjects

\* mNumObjects = 0
InitNumObjects == 0

Init ==
  /\ pc = "idle"
  /\ mObjects = <<>>
  /\ worldArr = <<>>
  /\ mNumObjects = InitNumObjects
  /\ deleted = <<>>
  /\ nextId = 1
  /\ calls = <<>>
  /\ last = [op |-> "create", objects |-> <<>>, world |-> <<>>, num |-> 0,
             changed |-> FALSE, pos |-> 0, ret |-> 0,
             prev |-> "none", prevCalls |-> <<>>, arg |-> <<>>]
  /\ mSoftBodyWorldInfo = DefaultInfo
  /\ worldGravity = DefaultGravity
  /\ steps = <<>>
  /\ mid = Point(<<>>, <<>>)

\* What an operation records: the operation, the registry, the engine's
\* array and the count it was entered with, the operation before it with
\* its engine calls, and whether a pushBack or an erase has been made since
\* the previous update returned (for update: up to its entry).
Entered(o, p, r, c) ==
  [op |-> o, objects |-> mObjects, world |-> worldArr, num |-> mNumObjects,
   changed |-> c, pos |-> p, ret |-> r,
   prev |-> last.op, prevCalls |-> calls, arg |-> <<>>]

\* Whether a pushBack or an erase has been made since the previous update
\* returned, as of the state the next operation is entered in.
ChangedNow == last.changed /\ last.op # "update"

----------------------------------------------------------------------------
\* void DynamicsWorld::pushBack( CollisionObject *object )
\* Mutant: the new object is put first.
pushBackRegistry_Front(s, object) == <<object>> \o s

pushBackRegistry(s, object) == push_back(s, object)

\* Mutant: the soft branch registers nothing.
pushBackWorld_RigidOnly(arr, object, outcome) ==
  IF outcome = "ok" /\ isRigidBody(object) THEN AddCollisionObject(arr, object)
  ELSE arr

pushBackWorld(arr, object, outcome) ==
  IF outcome = "ok" THEN AddCollisionObject(arr, object) ELSE arr

\* The statements of pushBack, in order: line 96, then lines 97-101.
pushBackOrder == <<"push_back", "add">>

\* The point reached after the first statement of pushBack.
pushBackMid(s, arr, object, outcome) ==
  IF pushBackOrder[1] = "push_back"
  THEN Point(pushBackRegistry(s, object), arr)
  ELSE Point(s, pushBackWorld(arr, object, outcome))

\* Mutant: pushBack keeps the count itself.
pushBack_Counting(object) ==
  /\ pc = "idle"
  /\ nextId <= MaxObjects
  /\ object.id = nextId
  /\ nextId' = nextId + 1
  /\ mObjects' = Append(mObjects, object)
  /\ \E outcome \in CallOutcomes(object) :
       /\ worldArr' = IF outcome = "ok" THEN Append(worldArr, object) ELSE worldArr
       /\ pc' = IF outcome = "crash" THEN "crashed" ELSE "idle"
       /\ mid' = Point(Append(mObjects, object), worldArr)
  /\ calls' = <<AddCall(object)>>
  /\ last' = Entered("pushBack", 0, 0, TRUE)
  /\ steps' = <<>>
  /\ mNumObjects' = mNumObjects + 1
  /\ UNCHANGED <<deleted, mSoftBodyWorldInfo, worldGravity>>

pushBack(object) ==
  /\ pc = "idle"
  /\ nextId <= MaxObjects
  /\ object.id = nextId
  /\ nextId' = nextId + 1
  /\ mObjects' = pushBackRegistry(mObjects, object)
  /\ \E outcome \in CallOutcomes(object) :
       /\ worldArr' = pushBackWorld(worldArr, object, outcome)
       /\ pc' = IF outcome = "crash" THEN "crashed" ELSE "idle"
       /\ mid' = pushBackMid(mObjects, worldArr, object, outcome)
  /\ calls' = <<AddCall(object)>>
  /\ last' = Entered("pushBack", 0, 0, TRUE)
  /\ steps' = <<>>
  /\ UNCHANGED <<mNumObjects, deleted, mSoftBodyWorldInfo, worldGravity>>

\* createRigidBox, createRigidCylinder, createRigidHull, createRigidMesh,
\* createRigidSphere, createRigidTerrain: each constructs its rigid object
\* and calls world->pushBack on it.
RigidShapes ==
  {"RigidBox", "RigidCylinder", "RigidHull", "RigidMesh", "RigidSphere",
   "RigidTerrain"}

\* new RigidBox( ... ) and the like: a rigid CollisionObject.
NewRigid(shape, i) == CollisionObject(i, "rigid")

\* Mutant: the handle is taken at index 0.
FactoryReturn_First(s) == s[1].id

\* &world->mObjects[ world->mObjects.size() - 1 ]: the object the returned
\* handle points to.
FactoryReturn(s) == s[Len(s)].id

createRigid(shape) ==
  LET object == NewRigid(shape, nextId)
  IN  /\ pc = "idle"
      /\ nextId <= MaxObjects
      /\ nextId' = nextId + 1
      /\ mObjects' = pushBackRegistry(mObjects, object)
      /\ \E outcome \in CallOutcomes(object) :
           /\ worldArr' = pushBackWorld(worldArr, object, outcome)
           /\ pc' = IF outcome = "crash" THEN "crashed" ELSE "idle"
           /\ mid' = pushBackMid(mObjects, worldArr, object, outcome)
      /\ calls' = <<AddCall(object)>>
      /\ last' = [Entered("createRigid", 0, FactoryReturn(mObjects'), TRUE)
                    EXCEPT !.arg = <<shape>>]
      /\ steps' = <<>>
      /\ UNCHANGED <<mNumObjects, deleted, mSoftBodyWorldInfo, worldGravity>>

\* Iter DynamicsWorld::erase( Iter pos )
eraseWorld(arr, object, outcome) ==
  IF outcome = "ok" THEN RemoveCollisionObject(arr, object) ELSE arr

\* Mutant: the last element is removed, whatever pos is.
eraseRegistry_PopBack(s, pos) == SubSeq(s, 1, Len(s) - 1)

eraseRegistry(s, pos) == SeqErase(s, pos)

\* Mutant: the registry entry is erased before the engine call.
eraseOrder_RegistryFirst == <<"erase", "remove">>

\* The statements of erase, in order: lines 86-90, then line 91.
eraseOrder == <<"remove", "erase">>

\* The point reached after the first statement of erase.
eraseMid(s, arr, pos, outcome) ==
  IF eraseOrder[1] = "remove"
  THEN Point(s, eraseWorld(arr, s[pos], outcome))
  ELSE Point(eraseRegistry(s, pos), arr)

erase(pos) ==
  /\ pc = "idle"
  /\ pos \in 1..Len(mObjects)
  /\ \E outcome \in CallOutcomes(mObjects[pos]) :
       /\ worldArr' = eraseWorld(worldArr, mObjects[pos], outcome)
       /\ mid' = eraseMid(mObjects, worldArr, pos, outcome)
       /\ pc' = IF outcome = "crash" THEN "crashed" ELSE "idle"
       /\ mObjects' = IF outcome = "crash" THEN mObjects
                      ELSE eraseRegistry(mObjects, pos)
       /\ last' = Entered("erase", pos,
                          IF outcome = "crash" THEN 0
                          ELSE EraseReturn(mObjects, pos), TRUE)
  /\ calls' = <<RemoveCall(mObjects[pos])>>
  /\ steps' = <<>>
  /\ UNCHANGED <<mNumObjects, deleted, nextId, mSoftBodyWorldInfo, worldGravity>>

----------------------------------------------------------------------------
\* void DynamicsWorld::update()

\* Mutant: the activation branch is entered on every call.
CountChanged_Always(m, numObjects) == TRUE

\* if ( mNumObjects != numObjects )
CountChanged(m, numObjects) == m # numObjects

\* Mutant: numObjects < 0, never true of an unsigned count.
NothingToDo_Never(numObjects) == numObjects < 0

\* if ( numObjects <= 0 ) return;
NothingToDo(numObjects) == numObjects <= 0

\* btRigidBody::upcast / btSoftBody::upcast on an entry of the array.
Upcasts(o) == isRigidBody(o) \/ isSoftBody(o)

\* Mutant: the else branch for soft bodies is missing.
ActivationPass_RigidOnly(arr) ==
  LET bodies == SelectSeq(arr, isRigidBody)
  IN  [i \in 1..Len(bodies) |-> <<"activate", bodies[i].id>>]

\* The loop over getCollisionObjectArray(): one activate( true ) per entry
\* that upcasts to a rigid or to a soft body, in array order.
ActivationPass(arr) ==
  LET bodies == SelectSeq(arr, Upcasts)
  IN  [i \in 1..Len(bodies) |-> <<"activate", bodies[i].id>>]

StepCall == <<"stepSimulation", 0>>

\* Whether update returns at the bail-out, before the count is stored.
Bails(m, numObjects) == CountChanged(m, numObjects) /\ NothingToDo(numObjects)

\* Mutant: the bail-out skips the activation pass only, not the step.
updateCalls_StepAtBail(m, arr) ==
  LET numObjects == Len(arr)
  IN  (IF CountChanged(m, numObjects) /\ ~NothingToDo(numObjects)
       THEN ActivationPass(arr) ELSE <<>>) \o <<<<"stepSimulation", 0>>>>

\* The engine calls of one update entered with last-observed count m.
updateCalls(m, arr) ==
  LET numObjects == Len(arr)
  IN  IF Bails(m, numObjects) THEN <<>>
      ELSE (IF CountChanged(m, numObjects) THEN ActivationPass(arr) ELSE <<>>)
           \o <<StepCall>>

\* Mutant: the count is stored before the bail-out.
updateNumObjects_StoreFirst(m, arr) == Len(arr)

\* Mutant: the count is never stored.
updateNumObjects_NoStore(m, arr) == m

\* mNumObjects after one update entered with last-observed count m.
updateNumObjects(m, arr) ==
  LET numObjects == Len(arr)
  IN  IF Bails(m, numObjects) THEN m ELSE numObjects

\* The frame rates getFrameRate() reports: 0, 1/2, 1, 3/2 and 60.
FrameRates == {<<0, 1>>, <<1, 2>>, <<1, 1>>, <<3, 2>>, <<60, 1>>}

\* x < y for floats with positive denominators.
Less(x, y) == x[1] * y[2] < y[1] * x[2]

\* math<float>::max( x, y )
max(x, y) == IF Less(x, y) THEN y ELSE x

\* 1.0f / x; a zero x shows as a zero denominator of the quotient.
Reciprocal(x) == <<x[2], x[1]>>

\* Mutant: the frame rate is not clamped.
FixedTimeStep_NoClamp(frameRate) == Reciprocal(frameRate)

\* 1.0f / math<float>::max( 1.0f, getFrameRate() )
FixedTimeStep(frameRate) == Reciprocal(max(<<1, 1>>, frameRate))

\* The first two arguments of stepSimulation.
TimeStep == 1

MaxSubSteps == 10

\* Mutant: the step runs under the stored world-info's gravity.
StepGravity_FromInfo == mSoftBodyWorldInfo.m_gravity

\* The gravity mWorld steps under: the one set on it.
StepGravity == worldGravity

\* mWorld->stepSimulation( 1.0f, 10, 1.0f / max( 1.0f, getFrameRate() ) )
StepArgs(frameRate) ==
  [timeStep |-> TimeStep, maxSubSteps |-> MaxSubSteps,
   fixedTimeStep |-> FixedTimeStep(frameRate), frameRate |-> frameRate,
   gravity |-> StepGravity]

update ==
  /\ pc = "idle"
  /\ calls' = updateCalls(mNumObjects, worldArr)
  /\ mNumObjects' = updateNumObjects(mNumObjects, worldArr)
  /\ last' = Entered("update", 0, 0, last.changed /\ last.op # "update")
  /\ \E frameRate \in FrameRates :
       steps' = [i \in 1..Len(SelectSeq(calls', LAMBDA c : c = StepCall))
                   |-> StepArgs(frameRate)]
  /\ mid' = Point(mObjects, worldArr)
  /\ UNCHANGED <<pc, mObjects, worldArr, deleted, nextId, mSoftBodyWorldInfo,
                 worldGravity>>

----------------------------------------------------------------------------
\* void DynamicsWorld::setInfo( const btSoftBodyWorldInfo &info )

\* mSoftBodyWorldInfo = info
setInfoStored(old, info) == info

setInfo(info) ==
  /\ pc = "idle"
  /\ mSoftBodyWorldInfo' = setInfoStored(mSoftBodyWorldInfo, info)
  /\ calls' = <<>>
  /\ steps' = <<>>
  /\ last' = [Entered("setInfo", 0, 0, ChangedNow) EXCEPT !.arg = <<info>>]
  /\ mid' = Point(mObjects, worldArr)
  /\ UNCHANGED <<pc, mObjects, worldArr, mNumObjects, deleted, nextId,
                 worldGravity>>

----------------------------------------------------------------------------
\* begin, end and the get* accessors: each returns a member and assigns
\* nothing.
Accessors ==
  {"begin", "end", "getBroadphase", "getCollisionConfiguration",
   "getDispatcher", "getInfo", "getNumObjects", "getObjects", "getSolver",
   "getWorld"}

accessor(name) ==
  /\ pc = "idle"
  /\ calls' = <<>>
  /\ steps' = <<>>
  /\ mid' = Point(mObjects, worldArr)
  /\ last' = Entered("accessor", 0, 0, ChangedNow)
  /\ UNCHANGED <<pc, mObjects, worldArr, mNumObjects, deleted, nextId,
                 mSoftBodyWorldInfo, worldGravity>>

----------------------------------------------------------------------------
\* DynamicsWorld::~DynamicsWorld()

\* Mutant: mWorld is deleted after mSolver.
DestructorOrder_WorldLast ==
  <<"mBroadphase", "mCollisionConfiguration", "mDispatcher", "mSolver", "mWorld">>

\* The members the destructor deletes, in the order of its statements.
DestructorOrder ==
  <<"mBroadphase", "mCollisionConfiguration", "mDispatcher", "mWorld", "mSolver">>

\* The constructor sets all five pointers; nothing resets them.
NonNull(member) == TRUE

destroy ==
  /\ pc = "idle"
  /\ pc' = "destroyed"
  /\ deleted' = SelectSeq(DestructorOrder, NonNull)
  /\ calls' = <<>>
  /\ last' = Entered("destroy", 0, 0, last.changed)
  /\ steps' = <<>>
  /\ mid' = Point(mObjects, worldArr)
  /\ UNCHANGED <<mObjects, worldArr, mNumObjects, nextId, mSoftBodyWorldInfo,
                 worldGravity>>

----------------------------------------------------------------------------
Next ==
  \/ \E k \in Kinds : pushBack(CollisionObject(nextId, k))
  \/ \E shape \in RigidShapes : createRigid(shape)
  \/ \E pos \in 1..Len(mObjects) : erase(pos)
  \/ update
  \/ \E info \in Infos : setInfo(info)
  \/ \E name \in Accessors : accessor(name)
  \/ destroy

Spec == Init /\ [][Next]_vars

----------------------------------------------------------------------------
\* What the properties below read off the record of the last operation.

Returned(o) == pc = "idle" /\ last.op = o

Activated(id) == \E j \in 1..Len(calls) : calls[j] = <<"activate", id>>

ActivateCalls == {j \in 1..Len(calls) : calls[j][1] = "activate"}

StepCalls == {j \in 1..Len(calls) : calls[j] = StepCall}

\* The live count an update was entered with.
LiveCount == Len(last.world)

HasKind(s, k) == \E i \in 1..Len(s) : s[i].kind = k

----------------------------------------------------------------------------
\* C1 (registration invariant): between operations, the objects reachable
\* by iterating the registry are exactly the objects in the simulation
\* context's array, each of them there exactly once, so the two counts are
\* equal.
C1_RegistrationInvariant ==
  pc = "idle" =>
    /\ Range(mObjects) = Range(worldArr)
    /\ Len(mObjects) = Len(worldArr)
    /\ Cardinality(Ids(worldArr)) = Len(worldArr)
    /\ Cardinality(Ids(mObjects)) = Len(mObjects)

\* A soft and a rigid object are registered, after an erase, with an update
\* made earlier.
C1_Witness ==
  /\ Returned("erase")
  /\ HasKind(mObjects, "rigid") /\ HasKind(mObjects, "soft")
  /\ mNumObjects > 0

----------------------------------------------------------------------------
\* C2 (activation on change): an update entered with a live count that is
\* not zero and differs from the last-observed count calls activate on
\* every object of the simulation context, rigid or soft, and makes every
\* such call before its simulation step.
C2_ActivationOnChange ==
  (Returned("update") /\ last.num # LiveCount /\ LiveCount # 0) =>
    /\ \A i \in 1..Len(last.world) : Activated(last.world[i].id)
    /\ StepCalls # {}
    /\ \A j \in ActivateCalls : \A k \in StepCalls : j < k

C2_Witness ==
  /\ Returned("update") /\ last.num # LiveCount
  /\ HasKind(last.world, "rigid") /\ HasKind(last.world, "soft")
  /\ Cardinality(ActivateCalls) = LiveCount

----------------------------------------------------------------------------
\* C3, as claimed: after any update returns, the last-observed count equals
\* the simulation context's live count.
C3_CountAlwaysStored == Returned("update") => mNumObjects = Len(worldArr)

\* C3, amended: an update stores the live count as the last-observed count,
\* except when the live count is zero and the last-observed count is not:
\* then it returns with the last-observed count as it was.
C3_CountStoredUnlessBail ==
  Returned("update") =>
    IF LiveCount = 0 /\ last.num # 0
    THEN mNumObjects = last.num
    ELSE mNumObjects = Len(worldArr)

\* An update that stored a count different from the one it was entered with.
C3_Witness ==
  /\ Returned("update") /\ LiveCount > 0
  /\ mNumObjects # last.num /\ mNumObjects = LiveCount

----------------------------------------------------------------------------
\* C4, as claimed: an update entered with zero live objects makes no
\* activation and no simulation step, whatever the last-observed count.
C4_ZeroIsNoOp == (Returned("update") /\ LiveCount = 0) => calls = <<>>

\* C4, amended: an update entered with zero live objects never activates;
\* it makes no simulation step when the last-observed count is not zero,
\* and exactly one simulation step when the last-observed count is zero
\* too (as in a newly created world).
C4_ZeroNoOpOnlyOnDrift ==
  (Returned("update") /\ LiveCount = 0) =>
    /\ ActivateCalls = {}
    /\ calls = IF last.num # 0 THEN <<>> ELSE <<StepCall>>

\* The early return: zero live objects, last-observed count not zero.
C4_Witness ==
  Returned("update") /\ LiveCount = 0 /\ last.num # 0 /\ calls = <<>>

----------------------------------------------------------------------------
\* C5, as claimed: every update that returns has made exactly one
\* simulation step.
C5_AlwaysSteps == Returned("update") => Cardinality(StepCalls) = 1

\* C5, amended: an update that returns has either bailed out (live count
\* zero, last-observed count not zero) with no activation, no step and the
\* count not stored, or has run the activation pass exactly when the counts
\* differ, stored the count and made exactly one simulation step, its last
\* engine call.
C5_StepsUnlessBail ==
  Returned("update") =>
    IF LiveCount = 0 /\ last.num # 0
    THEN calls = <<>> /\ mNumObjects = last.num
    ELSE /\ Cardinality(StepCalls) = 1
         /\ calls[Len(calls)] = StepCall
         /\ (ActivateCalls # {}) = (last.num # LiveCount)
         /\ mNumObjects = LiveCount

\* An update that ran all three phases, after one that bailed out.
C5_Witness ==
  /\ Returned("update") /\ Cardinality(StepCalls) = 1
  /\ ActivateCalls # {}
  /\ last.prev = "pushBack" /\ last.num > LiveCount

----------------------------------------------------------------------------
\* C6, as claimed: an update with a non-empty simulation context that
\* follows at least one pushBack or erase since the previous update
\* activates every live object.
C6_AnyChangeActivates ==
  (Returned("update") /\ last.changed /\ LiveCount > 0) =>
    \A i \in 1..Len(last.world) : Activated(last.world[i].id)

\* C6, amended: such an update activates every live object when the live
\* count differs from the last-observed count, and activates none when the
\* additions and removals left the live count equal to the last-observed
\* count.
C6_CountChangeActivates ==
  (Returned("update") /\ last.changed /\ LiveCount > 0) =>
    IF last.num # LiveCount
    THEN \A i \in 1..Len(last.world) : Activated(last.world[i].id)
    ELSE ActivateCalls = {}

\* Objects were added or removed, the count is as last observed.
C6_Witness ==
  /\ Returned("update") /\ last.changed /\ LiveCount > 0
  /\ last.num = LiveCount /\ ActivateCalls = {}

----------------------------------------------------------------------------
\* C7 (erase correctness): erase at a valid position pos of a registry of
\* length n removes the element at pos and no other, keeping the order of
\* the rest; the removed object is no longer in the simulation context and
\* every other object still is; the returned position is that of the
\* element that followed pos, or end() when pos was the last.
C7_EraseCorrect ==
  Returned("erase") =>
    LET old == last.objects
        n == Len(old)
        pos == last.pos
    IN  /\ Len(mObjects) = n - 1
        /\ \A i \in 1..(n - 1) : mObjects[i] = IF i < pos THEN old[i] ELSE old[i + 1]
        /\ old[pos].id \notin Ids(worldArr)
        /\ \A i \in 1..n : i # pos => old[i].id \in Ids(worldArr)
        /\ IF pos < n THEN mObjects[last.ret] = old[pos + 1] ELSE last.ret = end

\* A soft object was erased from between two others.
C7_Witness ==
  /\ Returned("erase")
  /\ 1 < last.pos /\ last.pos < Len(last.objects)
  /\ isSoftBody(last.objects[last.pos])

----------------------------------------------------------------------------
\* C8 (ordering): objects get their identities in the order they are
\* appended, so the registry is in append order when its identities
\* increase from begin() to end(); and a pushBack leaves the registry it
\* found in place and puts the new object last.
C8_AppendOrder ==
  /\ \A i \in 1..Len(mObjects) : \A j \in 1..Len(mObjects) :
        i < j => mObjects[i].id < mObjects[j].id
  /\ last.op = "pushBack" =>
        /\ Len(mObjects) = Len(last.objects) + 1
        /\ SubSeq(mObjects, 1, Len(last.objects)) = last.objects
        /\ mObjects[end - 1].id = nextId - 1

\* A pushBack onto a registry that had an object erased from its middle.
C8_Witness ==
  /\ Returned("pushBack") /\ Len(mObjects) >= 2
  /\ \E i \in 1..(Len(mObjects) - 1) : mObjects[i + 1].id > mObjects[i].id + 1

----------------------------------------------------------------------------
\* C9 (idempotent count tracking): an update entered with no pushBack and
\* no erase made since the previous update returned, directly after that
\* update or with setInfo or accessor calls in between, runs no activation
\* pass.
C9_SecondUpdateNoActivation ==
  (Returned("update") /\ ~last.changed) => ActivateCalls = {}

\* The first of the two updates ran the activation pass.
C9_Witness ==
  /\ Returned("update") /\ last.prev = "update"
  /\ \E j \in 1..Len(last.prevCalls) : last.prevCalls[j][1] = "activate"

----------------------------------------------------------------------------
\* C10, as claimed: the destructor deletes each of the five members once
\* and the simulation context last.
Members ==
  {"mBroadphase", "mCollisionConfiguration", "mDispatcher", "mWorld", "mSolver"}

Index(s, m) == CHOOSE i \in 1..Len(s) : s[i] = m

----------------------------------------------------------------------------
\* C11, as claimed: after setInfo( info ) the stored world-info is info,
\* and the simulation step of an update runs under the gravity of the
\* stored world-info.
C11_InfoGravityApplied ==
  /\ Returned("setInfo") => mSoftBodyWorldInfo = last.arg[1]
  /\ Returned("update") =>
       \A i \in 1..Len(steps) : steps[i].gravity = mSoftBodyWorldInfo.m_gravity

\* C11, amended: after setInfo( info ) the stored world-info is info in
\* full and the gravity set on the simulation context is still the one the
\* constructor set, (0, -10, 0); every simulation step runs under that
\* gravity, whatever the gravity of the stored world-info.
C11_InfoStoredGravityKept ==
  /\ Returned("setInfo") =>
       mSoftBodyWorldInfo = last.arg[1] /\ worldGravity = <<0, -10, 0>>
  /\ Returned("update") =>
       \A i \in 1..Len(steps) : steps[i].gravity = <<0, -10, 0>>

\* A step made with another gravity stored in the world-info.
C11_Witness ==
  /\ Returned("update") /\ Len(steps) = 1
  /\ mSoftBodyWorldInfo.m_gravity # <<0, -10, 0>>
  /\ mSoftBodyWorldInfo.air_density # DefaultInfo.air_density

----------------------------------------------------------------------------
\* C12 (sub-step clamp): every simulation step an update makes has horizon
\* 1, at most 10 sub-steps, and a sub-step duration of 1 / max(1, f) for
\* the reported frame rate f: the divisor is never zero, the duration is
\* 1 / 1 for every f <= 1 and 1 / f for every f > 1.
C12_SubStepClamp ==
  Returned("update") =>
    \A i \in 1..Len(steps) :
      LET f == steps[i].frameRate
          d == steps[i].fixedTimeStep
      IN  /\ steps[i].timeStep = 1
          /\ steps[i].maxSubSteps = 10
          /\ d[2] # 0
          /\ d = IF f[1] <= f[2] THEN <<1, 1>> ELSE <<f[2], f[1]>>

\* A step made at a reported frame rate of 0.
C12_Witness ==
  Returned("update") /\ Len(steps) = 1 /\ steps[1].frameRate = <<0, 1>>

----------------------------------------------------------------------------
\* C13 (initial state): a world as create() returns it has an empty
\* registry, begin() equal to end(), no object in the simulation context
\* and a last-observed object count of 0.
C13_InitialState ==
  last.op = "create" =>
    /\ begin = end
    /\ mObjects = <<>>
    /\ Len(worldArr) = 0
    /\ getNumObjects = 0

\* The world before its first operation.
C13_Witness == Returned("create") /\ last.prev = "none" /\ calls = <<>>

----------------------------------------------------------------------------
\* C14 (no untracked-reference window): at the point between the two
\* statements of a pushBack or an erase, as between operations and where a
\* call has faulted, every object in the simulation context is in the
\* registry; erase has by then removed the object from the simulation
\* context and not yet from the registry, and pushBack has appended the
\* object to the registry and not yet registered it.
C14_NoUntrackedWindow ==
  /\ Ids(mid.world) \subseteq Ids(mid.objects)
  /\ Ids(worldArr) \subseteq Ids(mObjects)
  /\ last.op = "erase" =>
       /\ mid.objects = last.objects
       /\ pc = "idle" =>
            /\ last.objects[last.pos].id \notin Ids(mid.world)
            /\ Len(mObjects) = Len(mid.objects) - 1
  /\ last.op = "pushBack" =>
       /\ mid.world = last.world
       /\ Len(mid.objects) = Len(last.objects) + 1
       /\ mid.objects[Len(mid.objects)].id \notin Ids(mid.world)

\* An erase that left other objects registered, at its middle point.
C14_Witness ==
  /\ Returned("erase")
  /\ Len(mid.objects) = Len(mObjects) + 1
  /\ mid.world = worldArr /\ Len(worldArr) > 0

----------------------------------------------------------------------------
\* C15 (factory result): a createRigid* factory appends exactly one new
\* rigid object to the registry, leaving the objects that were there in
\* place and in order, registers it with the simulation context, and
\* returns a handle to that object, the last of the registry.
C15_FactoryResult ==
  Returned("createRigid") =>
    LET n == Len(last.objects)
        new == mObjects[end - 1]
    IN  /\ Len(mObjects) = n + 1
        /\ SubSeq(mObjects, 1, n) = last.objects
        /\ isRigidBody(new)
        /\ new.id \notin Ids(last.objects)
        /\ calls = <<<<"addRigidBody", new.id>>>>
        /\ Len(worldArr) = Len(last.world) + 1
        /\ new \in Range(worldArr)
        /\ last.ret = new.id

\* A terrain created in a world that holds a soft and a rigid object.
C15_Witness ==
  /\ Returned("createRigid") /\ last.arg = <<"RigidTerrain">>
  /\ HasKind(last.objects, "rigid") /\ HasKind(last.objects, "soft")

----------------------------------------------------------------------------
\* C16 (frame conditions): update leaves the registry and the simulation
\* context's objects as it found them; pushBack, the factories, erase,
\* setInfo, begin, end and the accessors leave the last-observed object
\* count as they found it.
C16_FrameConditions ==
  /\ last.op = "update" => mObjects = last.objects /\ worldArr = last.world
  /\ last.op \in {"pushBack", "createRigid", "erase", "setInfo", "accessor"} =>
       getNumObjects = last.num

\* A pushBack after which the count is still the one an update stored.
C16_Witness ==
  /\ Returned("pushBack") /\ last.prev = "update"
  /\ getNumObjects > 0 /\ Len(worldArr) = getNumObjects + 1

----------------------------------------------------------------------------
\* C17 (sticky non-zero count): no operation takes the last-observed count
\* from a non-zero value to zero; an update entered with no live object and
\* a non-zero last-observed count returns with that count kept, and an
\* update runs the activation pass exactly when the live count is not zero
\* and differs from the count it was entered with, stale or not.
C17_StickyNonZeroCount ==
  /\ last.num # 0 => getNumObjects # 0
  /\ (Returned("update") /\ LiveCount = 0 /\ last.num # 0) =>
       getNumObjects = last.num
  /\ Returned("update") =>
       (ActivateCalls # {}) = (LiveCount # 0 /\ LiveCount # last.num)

\* Every object erased and update called twice: the count is still stale.
C17_Witness ==
  /\ Returned("update") /\ last.prev = "update"
  /\ Len(worldArr) = 0 /\ mObjects = <<>>
  /\ getNumObjects > 0

====
